---------------------------- MODULE Spec2Model ----------------------------
(***************************************************************************)
(* Model of src/main.py: the Markowitz portfolio optimisation API.         *)
(*                                                                         *)
(* Real numbers are fixed-point integers in units of 1e-7 (One = 1.0), so  *)
(* that the roundings the program applies (5 decimals in clean_weights,    *)
(* 6 decimals in the result metrics) are visible.                          *)
(*                                                                         *)
(* A data frame is described by what the code reads of it: its shape, the  *)
(* rows and columns the cleaning removes, whether its columns are linearly *)
(* dependent, and the "market scenario" scn: what the optimisation library *)
(* (pypfopt, a deterministic function of the data) answers on that data.   *)
(***************************************************************************)
EXTENDS Integers, Sequences, FiniteSets, TLC

\* one record per worker: the request it is serving, with every local
\* variable of the handler and of the optimize_portfolio call in it
VARIABLES runs

One == 10 * 1000 * 1000

\* ------------------------------------------------------------------ bounds
NumRuns == 2

\* ------------------------------------------------------- program constants
MIN_ROWS == 30
MIN_COLS == 2
RISK_MIN == One \div 100
RISK_MAX == 2 * One
WEIGHT_MIN == One \div 100
WEIGHT_MAX == One
CUTOFF == One \div 10000
WEIGHT_STEP == One \div 100000
METRIC_STEP == One \div 1000000
ACTIVE_MIN == One \div 1000

Runs == 1 .. NumRuns

\* ----------------------------------------------------------------- helpers
Max(a, b) == IF a >= b THEN a ELSE b
Min(a, b) == IF a <= b THEN a ELSE b
Clamp(x, lo, hi) == Max(lo, Min(x, hi))

\* round(x, k): to the nearest multiple of step, ties to even
RoundTo(x, step) ==
    LET q == x \div step
        rem == x % step
    IN  IF 2 * rem < step THEN q * step
        ELSE IF 2 * rem > step THEN (q + 1) * step
        ELSE IF q % 2 = 0 THEN q * step ELSE (q + 1) * step

RECURSIVE SumSeq(_)
SumSeq(s) == IF s = <<>> THEN 0 ELSE Head(s) + SumSeq(Tail(s))

CountActive(s) == Cardinality({i \in DOMAIN s : s[i] > ACTIVE_MIN})

\* --------------------------------------------------------- market scenarios
NoPerf == [ret |-> 0, vol |-> 0, sharpe |-> 0]

BaseScn ==
    [ctorFault |-> FALSE,
     ms |-> [ideal |-> 7000000, ret |-> 1000003, vol |-> 1500004,
             sharpe |-> 6666668, fault |-> "none"],
     er |-> [ideal |-> 3000000, ret |-> 600004, sharpe |-> 7500046,
             minVol |-> 500000, fault |-> "none"]]

\* What the library answers on a data set: the unconstrained optimum of the
\* first asset and the figures of the max-Sharpe solve (ms) and of the
\* efficient-risk solve (er), the minimum volatility the data allows, and
\* the library call, if any, that raises on this data.
Scn(name) ==
    CASE name = "base" -> BaseScn
      [] name = "high_min_vol" -> [BaseScn EXCEPT !.er.minVol = 900000]
      [] name = "concentrated" -> [BaseScn EXCEPT !.ms.ideal = 9999500]
      [] name = "risk_at_cap" -> [BaseScn EXCEPT !.er.ideal = 6000060]
      [] name = "ctor_raises" -> [BaseScn EXCEPT !.ctorFault = TRUE]
      [] name = "ms_solve_raises" -> [BaseScn EXCEPT !.ms.fault = "max_sharpe"]
      [] name = "ms_clean_raises" ->
            [BaseScn EXCEPT !.ms.fault = "clean_weights"]
      [] name = "ms_perf_raises" ->
            [BaseScn EXCEPT !.ms.fault = "portfolio_performance"]
      [] name = "er_solve_raises" ->
            [BaseScn EXCEPT !.er.fault = "efficient_risk"]
      [] name = "er_clean_raises" ->
            [BaseScn EXCEPT !.er.fault = "clean_weights"]
      [] name = "er_perf_raises" ->
            [BaseScn EXCEPT !.er.fault = "portfolio_performance"]

Scenarios ==
    {"base", "high_min_vol", "concentrated", "risk_at_cap", "ctor_raises",
     "ms_solve_raises", "ms_clean_raises", "ms_perf_raises",
     "er_solve_raises", "er_clean_raises", "er_perf_raises"}

\* ------------------------------------------------ the optimisation library
\* An EfficientFrontier object: the problem data (n assets, the scenario of
\* the data), the weight bounds (0, ub) it was built with, and the weights
\* of the last solve.
NoEf == [n |-> 0, scn |-> "base", ub |-> 0, weights |-> <<>>,
         solved |-> "none", target |-> 0]

\* EfficientFrontier(mu, S, weight_bounds=(0, ub))
EfficientFrontier(mu, S, ub) ==
    IF Scn(mu.scn).ctorFault
    THEN [ok |-> FALSE, ef |-> NoEf]
    ELSE [ok |-> TRUE,
          ef |-> [n |-> mu.n, scn |-> mu.scn, ub |-> ub, weights |-> <<>>,
                  solved |-> "none", target |-> 0]]

\* The solver's answer under the constraints sum(w) = 1, 0 <= w_i <= ub: the
\* first asset as close to the unconstrained optimum as the bounds allow,
\* the rest of the budget on the following assets.
RECURSIVE Fill(_, _, _)
Fill(rest, k, ub) ==
    IF k = 0 THEN <<>>
    ELSE <<Min(rest, ub)>> \o Fill(rest - Min(rest, ub), k - 1, ub)

Feasible(n, ub) == n >= 1 /\ ub >= 0 /\ n * Min(ub, One) >= One

Allocate(ideal, n, ub) ==
    LET w1 == Clamp(ideal, Max(0, One - (n - 1) * Min(ub, One)), Min(ub, One))
    IN  <<w1>> \o Fill(One - w1, n - 1, ub)

\* ef.max_sharpe()
max_sharpe(ef) ==
    IF Scn(ef.scn).ms.fault = "max_sharpe" \/ ~Feasible(ef.n, ef.ub)
    THEN [ok |-> FALSE, ef |-> ef]
    ELSE [ok |-> TRUE,
          ef |-> [ef EXCEPT
                    !.weights = Allocate(Scn(ef.scn).ms.ideal, ef.n, ef.ub),
                    !.solved = "max_sharpe"]]

\* ef.efficient_risk(target_volatility): raises when the target is below the
\* minimum volatility of the data or the problem is infeasible.
efficient_risk(ef, target) ==
    IF \/ Scn(ef.scn).er.fault = "efficient_risk"
       \/ target < Scn(ef.scn).er.minVol
       \/ ~Feasible(ef.n, ef.ub)
    THEN [ok |-> FALSE, ef |-> ef]
    ELSE [ok |-> TRUE,
          ef |-> [ef EXCEPT
                    !.weights = Allocate(Scn(ef.scn).er.ideal, ef.n, ef.ub),
                    !.solved = "efficient_risk",
                    !.target = target]]

LibFault(ef) ==
    IF ef.solved = "max_sharpe" THEN Scn(ef.scn).ms.fault
    ELSE IF ef.solved = "efficient_risk" THEN Scn(ef.scn).er.fault
    ELSE "none"

\* ef.clean_weights(): weights below the cutoff (1e-4) become 0, the others
\* are rounded to 5 decimals; no renormalisation.
CleanOne(w) ==
    IF (IF w < 0 THEN -w ELSE w) < CUTOFF THEN 0 ELSE RoundTo(w, WEIGHT_STEP)

clean_weights(ef) ==
    IF ef.solved = "none" \/ LibFault(ef) = "clean_weights"
    THEN [ok |-> FALSE, weights |-> <<>>]
    ELSE [ok |-> TRUE,
          weights |-> [i \in DOMAIN ef.weights |-> CleanOne(ef.weights[i])]]

\* ef.portfolio_performance(): (expected return, volatility, Sharpe ratio) of
\* the last solve.
portfolio_performance(ef) ==
    IF ef.solved = "none" \/ LibFault(ef) = "portfolio_performance"
    THEN [ok |-> FALSE, perf |-> NoPerf]
    ELSE IF ef.solved = "max_sharpe"
    THEN [ok |-> TRUE,
          perf |-> [ret |-> Scn(ef.scn).ms.ret, vol |-> Scn(ef.scn).ms.vol,
                    sharpe |-> Scn(ef.scn).ms.sharpe]]
    ELSE [ok |-> TRUE,
          perf |-> [ret |-> Scn(ef.scn).er.ret, vol |-> ef.target,
                    sharpe |-> Scn(ef.scn).er.sharpe]]

\* ------------------------------------------ PortfolioOptimizer.optimize_portfolio
NoMetrics == [expected_return |-> 0, expected_volatility |-> 0,
              sharpe_ratio |-> 0, active_positions |-> 0, total_weight |-> 0]

NoOutcome == [kind |-> "none", error |-> "", weights |-> <<>>,
              metrics |-> NoMetrics]

NoStat == [nan |-> FALSE, n |-> 0, minEig |-> 0, scn |-> "base"]

\* the local variables of one call
NewCore(df, risk_level, max_weight) ==
    [pc |-> "Estimate", df |-> df, risk_level |-> risk_level,
     max_weight |-> max_weight, mu |-> NoStat, S |-> NoStat,
     ef |-> NoEf, ef_risk |-> NoEf, cleaned_weights |-> <<>>,
     perf |-> NoPerf, calls |-> <<>>, failedAt |-> "none",
     riskError |-> "none", outcome |-> NoOutcome]

IdleCore ==
    [NewCore([rows |-> 0, cols |-> 0, dep |-> FALSE, scn |-> "base"], 0, 0)
        EXCEPT !.pc = "idle"]

Raise(c, step, kind) ==
    [c EXCEPT !.pc = "done", !.failedAt = step,
              !.outcome = [NoOutcome EXCEPT !.kind = "Failed", !.error = kind]]

\* df.mean() * TRADING_DAYS: undefined for a frame without rows
Mean(df) == [nan |-> df.rows = 0, n |-> df.cols, minEig |-> 0, scn |-> df.scn]

\* df.cov() * TRADING_DAYS, with the sign of its smallest eigenvalue: the
\* sample covariance (N-1 denominator) is undefined with fewer than 2 rows,
\* positive semi-definite always, and singular when the columns are
\* linearly dependent or there are fewer than cols+1 rows.
Cov(df) ==
    [nan |-> df.rows < 2, n |-> df.cols,
     minEig |-> IF df.dep \/ df.rows - 1 < df.cols THEN 0 ELSE 1,
     scn |-> df.scn]

\* lines 123-131
Estimate(c) ==
    LET mu == Mean(c.df)
        S == Cov(c.df)
        c1 == [c EXCEPT !.mu = mu, !.S = S]
    IN  IF mu.nan THEN Raise(c1, "Estimate", "StatisticsError")
        ELSE IF S.nan THEN Raise(c1, "Estimate", "StatisticsError")
        ELSE [c1 EXCEPT !.pc = "Validate"]

\* the test of line 135 written < 0: a singular matrix passes
ValidateSemiDefinite(c) ==
    IF c.S.minEig < 0
    THEN Raise(c, "Validate", "IllConditionedCovarianceError")
    ELSE [c EXCEPT !.pc = "MaxSharpe"]

\* lines 134-136
Validate(c) ==
    IF c.S.minEig <= 0
    THEN Raise(c, "Validate", "IllConditionedCovarianceError")
    ELSE [c EXCEPT !.pc = "MaxSharpe"]

Called(c, name) == [c EXCEPT !.calls = Append(@, name)]

\* lines 140-147 and the handler of line 178 for them; a is what the
\* constructor call of line 140 gave
SolveMaxSharpe(c, a) ==
    LET c0 == Called(c, "EfficientFrontier")
        c1 == Called([c0 EXCEPT !.ef = a.ef], "max_sharpe")
        b == max_sharpe(a.ef)
        c2 == Called([c1 EXCEPT !.ef = b.ef], "clean_weights")
        w == clean_weights(b.ef)
        c3 == Called([c2 EXCEPT !.cleaned_weights = w.weights],
                     "portfolio_performance")
        p == portfolio_performance(b.ef)
    IN  IF ~a.ok THEN Raise(c0, "MaxSharpe", "OptimizationError")
        ELSE IF ~b.ok THEN Raise(c1, "MaxSharpe", "OptimizationError")
        ELSE IF ~w.ok THEN Raise(c2, "MaxSharpe", "OptimizationError")
        ELSE IF ~p.ok THEN Raise(c3, "MaxSharpe", "OptimizationError")
        ELSE [c3 EXCEPT !.perf = p.perf, !.pc = "RiskCheck"]

\* line 140 with weight_bounds=(0, 1): the caller's cap is not passed on
MaxSharpeUncapped(c) ==
    SolveMaxSharpe(c, EfficientFrontier(c.mu, c.S, One))

\* ef kept in a module-level variable: a call that starts its solve while
\* another call is between lines 147 and 176 works on that call's object
MaxSharpeSharedEf(c) ==
    LET busy == {o \in Runs : /\ runs[o].pc = "core"
                              /\ runs[o].core.pc \in {"RiskCheck", "Report"}}
    IN  IF busy = {}
        THEN SolveMaxSharpe(c, EfficientFrontier(c.mu, c.S, c.max_weight))
        ELSE SolveMaxSharpe(c, [ok |-> TRUE,
                                ef |-> runs[CHOOSE o \in busy : TRUE].core.ef])

\* lines 138-147
MaxSharpe(c) ==
    SolveMaxSharpe(c, EfficientFrontier(c.mu, c.S, c.max_weight))

\* the comparison of line 150 written >=
ExceedsRiskOrEqual(vol, risk_level) == vol >= risk_level

\* line 150
ExceedsRisk(vol, risk_level) == vol > risk_level

\* RiskResolve without the handler of line 160: the exception reaches the
\* handler of line 178.
RiskResolveUncaught(c) ==
    LET c0 == Called(c, "risk.EfficientFrontier")
        a == EfficientFrontier(c.mu, c.S, c.max_weight)
        c1 == Called([c0 EXCEPT !.ef_risk = a.ef], "risk.efficient_risk")
        b == efficient_risk(a.ef, c.risk_level)
        c2 == Called([c1 EXCEPT !.ef_risk = b.ef], "risk.clean_weights")
        w == clean_weights(b.ef)
        c3 == Called([c2 EXCEPT !.cleaned_weights = w.weights],
                     "risk.portfolio_performance")
        p == portfolio_performance(b.ef)
    IN  IF ~a.ok
        THEN Raise([c0 EXCEPT !.riskError = "EfficientFrontier"],
                   "RiskCheck", "OptimizationError")
        ELSE IF ~b.ok
        THEN Raise([c1 EXCEPT !.riskError = "efficient_risk"],
                   "RiskCheck", "OptimizationError")
        ELSE IF ~w.ok
        THEN Raise([c2 EXCEPT !.riskError = "clean_weights"],
                   "RiskCheck", "OptimizationError")
        ELSE IF ~p.ok
        THEN Raise([c3 EXCEPT !.riskError = "portfolio_performance"],
                   "RiskCheck", "OptimizationError")
        ELSE [c3 EXCEPT !.perf = p.perf, !.pc = "Report"]

\* lines 154-162: the inner try; whatever was assigned before the exception
\* stays assigned, and the handler of line 160 goes on to the result.
RiskResolve(c) ==
    LET c0 == Called(c, "risk.EfficientFrontier")
        a == EfficientFrontier(c.mu, c.S, c.max_weight)
        c1 == Called([c0 EXCEPT !.ef_risk = a.ef], "risk.efficient_risk")
        b == efficient_risk(a.ef, c.risk_level)
        c2 == Called([c1 EXCEPT !.ef_risk = b.ef], "risk.clean_weights")
        w == clean_weights(b.ef)
        c3 == Called([c2 EXCEPT !.cleaned_weights = w.weights],
                     "risk.portfolio_performance")
        p == portfolio_performance(b.ef)
    IN  IF ~a.ok
        THEN [c0 EXCEPT !.riskError = "EfficientFrontier", !.pc = "Report"]
        ELSE IF ~b.ok
        THEN [c1 EXCEPT !.riskError = "efficient_risk", !.pc = "Report"]
        ELSE IF ~w.ok
        THEN [c2 EXCEPT !.riskError = "clean_weights", !.pc = "Report"]
        ELSE IF ~p.ok
        THEN [c3 EXCEPT !.riskError = "portfolio_performance",
                        !.pc = "Report"]
        ELSE [c3 EXCEPT !.perf = p.perf, !.pc = "Report"]

\* lines 149-162
RiskCheck(c) ==
    IF ExceedsRisk(c.perf.vol, c.risk_level)
    THEN RiskResolve(c)
    ELSE [c EXCEPT !.pc = "Report"]

\* lines 165-176 with a check that the weights add up to exactly 1
ReportStrict(c) ==
    IF SumSeq(c.cleaned_weights) # One
    THEN Raise(c, "Report", "OptimizationError")
    ELSE [c EXCEPT
        !.pc = "done",
        !.outcome =
            [kind |-> "Success", error |-> "",
             weights |-> c.cleaned_weights,
             metrics |->
                [expected_return |-> RoundTo(c.perf.ret, METRIC_STEP),
                 expected_volatility |-> RoundTo(c.perf.vol, METRIC_STEP),
                 sharpe_ratio |-> RoundTo(c.perf.sharpe, METRIC_STEP),
                 active_positions |-> CountActive(c.cleaned_weights),
                 total_weight |->
                    RoundTo(SumSeq(c.cleaned_weights), METRIC_STEP)]]]

\* lines 165-176
Report(c) ==
    [c EXCEPT
        !.pc = "done",
        !.outcome =
            [kind |-> "Success", error |-> "",
             weights |-> c.cleaned_weights,
             metrics |->
                [expected_return |-> RoundTo(c.perf.ret, METRIC_STEP),
                 expected_volatility |-> RoundTo(c.perf.vol, METRIC_STEP),
                 sharpe_ratio |-> RoundTo(c.perf.sharpe, METRIC_STEP),
                 active_positions |-> CountActive(c.cleaned_weights),
                 total_weight |->
                    RoundTo(SumSeq(c.cleaned_weights), METRIC_STEP)]]]

CoreStep(c) ==
    IF c.pc = "Estimate" THEN Estimate(c)
    ELSE IF c.pc = "Validate" THEN Validate(c)
    ELSE IF c.pc = "MaxSharpe" THEN MaxSharpe(c)
    ELSE IF c.pc = "RiskCheck" THEN RiskCheck(c)
    ELSE IF c.pc = "Report" THEN Report(c)
    ELSE c

\* the whole call, start to return
optimize_portfolio(df, risk_level, max_weight) ==
    CoreStep(CoreStep(CoreStep(CoreStep(CoreStep(
        NewCore(df, risk_level, max_weight))))))


\* ------------------------------------------------------------ uploaded data
\* A parsed CSV: its shape, the rows drop_duplicates/dropna remove, the
\* columns with more than 10% NaN, what validate_csv_format finds in its
\* cells, whether the columns that survive cleaning are linearly dependent.
BaseTable ==
    [rows |-> 40, cols |-> 2, dupRows |-> 0, nanRows |-> 0, badCols |-> 0,
     fmt |-> "numeric", dep |-> FALSE, scn |-> "base"]

Tables ==
    {[BaseTable EXCEPT !.scn = s] : s \in Scenarios}
    \cup {[BaseTable EXCEPT !.cols = 3, !.badCols = 1],
          [BaseTable EXCEPT !.cols = 3],
          [BaseTable EXCEPT !.rows = 30],
          [BaseTable EXCEPT !.rows = 20],
          [BaseTable EXCEPT !.rows = 0],
          [BaseTable EXCEPT !.cols = 1],
          [BaseTable EXCEPT !.rows = 35, !.dupRows = 10],
          [BaseTable EXCEPT !.rows = 32, !.nanRows = 3],
          [BaseTable EXCEPT !.badCols = 1],
          [BaseTable EXCEPT !.dep = TRUE],
          [BaseTable EXCEPT !.fmt = "nonnumeric"],
          [BaseTable EXCEPT !.fmt = "prices"]}

\* An upload: the file name, what the bytes are, and the table they parse to.
Uploads ==
    {[name |-> "csv", text |-> "valid", table |-> t] : t \in Tables}
    \cup {[name |-> "other", text |-> "valid", table |-> BaseTable],
          [name |-> "none", text |-> "valid", table |-> BaseTable],
          [name |-> "csv", text |-> "undecodable", table |-> BaseTable],
          [name |-> "csv", text |-> "malformed", table |-> BaseTable]}

RiskLevels == {50000, 800000, 1500004, One, 25000000}
MaxWeights == {0, 4000000, 6000060, One, 15000000}

\* frames handed to optimize_portfolio by a direct caller
Frames ==
    {[rows |-> n, cols |-> k, dep |-> d, scn |-> "base"] :
        n \in {0, 1, 2, 3, 29, 40}, k \in {1, 2}, d \in BOOLEAN}
    \cup {[rows |-> n, cols |-> 2, dep |-> FALSE, scn |-> s] :
            n \in {29, 40}, s \in Scenarios}

\* frames, risk levels and weight caps of the concurrent callers
PoolFrames ==
    {[rows |-> 40, cols |-> 2, dep |-> FALSE, scn |-> s] :
        s \in {"base", "high_min_vol"}}
PoolRisk == {800000, 1500004}
PoolWeight == {6000060, One}

\* -------------------------------------------- PortfolioOptimizer.validate_csv_format
\* lines 44-75: "" when the frame passes, else the error
validate_csv_format(t) ==
    IF t.rows = 0 \/ t.cols = 0 THEN "EmptyCsv"
    ELSE IF t.rows < MIN_ROWS THEN "InsufficientDataError"
    ELSE IF t.cols < MIN_COLS THEN "InsufficientDataError"
    ELSE IF t.fmt = "nonnumeric" THEN "NonNumericColumns"
    ELSE IF t.fmt = "prices" THEN "PricesNotReturns"
    ELSE ""

\* -------------------------------------------------- PortfolioOptimizer.clean_data
NoFrame == [rows |-> 0, cols |-> 0, dep |-> FALSE, scn |-> "base"]

\* lines 81-114 without the test of line 111
clean_data_rows_only(t) ==
    LET rows == t.rows - t.dupRows - t.nanRows
        cols == t.cols - t.badCols
    IN  IF rows < MIN_ROWS
        THEN [ok |-> FALSE, err |-> "InsufficientDataError", df |-> NoFrame]
        ELSE [ok |-> TRUE, err |-> "",
              df |-> [rows |-> rows, cols |-> cols, dep |-> t.dep,
                      scn |-> t.scn]]

\* lines 81-114
clean_data(t) ==
    LET rows == t.rows - t.dupRows - t.nanRows
        cols == t.cols - t.badCols
    IN  IF rows < MIN_ROWS
        THEN [ok |-> FALSE, err |-> "InsufficientDataError", df |-> NoFrame]
        ELSE IF cols < MIN_COLS
        THEN [ok |-> FALSE, err |-> "InsufficientDataError", df |-> NoFrame]
        ELSE [ok |-> TRUE, err |-> "",
              df |-> [rows |-> rows, cols |-> cols, dep |-> t.dep,
                      scn |-> t.scn]]

\* ------------------------------------------------------------ the endpoints
NoResponse ==
    [status |-> 0, error |-> "", cause |-> "", optimal_portfolio |-> <<>>,
     detailed |-> FALSE, portfolio_metrics |-> NoMetrics]

HTTPException(status, error, cause) ==
    [NoResponse EXCEPT !.status = status, !.error = error, !.cause = cause]

NoFile == [upload |-> [name |-> "csv", text |-> "valid", table |-> BaseTable],
           pos |-> 0]

IdleRun ==
    [kind |-> "none", pc |-> "idle", file |-> NoFile, risk_level |-> 0,
     max_weight |-> 0, table |-> BaseTable, core |-> IdleCore,
     inner |-> NoResponse, response |-> NoResponse, invoked |-> 0]

\* await file.read(): the bytes from the current position to the end; the
\* position is left at the end.
FileRead(file) ==
    [data |-> IF file.pos = 0 THEN file.upload.text ELSE "empty",
     file |-> [file EXCEPT !.pos = 1]]

\* what the endpoint answers: for the detailed endpoint this is what the
\* call of line 306 returns or raises.
Answer(q, resp) ==
    IF q.kind = "minimal" \/ resp.status # 200
    THEN [q EXCEPT !.pc = "done", !.inner = resp, !.response = resp]
    ELSE [q EXCEPT !.pc = "reprocess", !.inner = resp]

RiskLevelOk(x) == RISK_MIN <= x /\ x <= RISK_MAX

\* the test of line 225 without its upper end
MaxWeightAtLeastMin(x) == WEIGHT_MIN <= x

MaxWeightOk(x) == WEIGHT_MIN <= x /\ x <= WEIGHT_MAX

\* lines 219-236
CheckParams(q) ==
    IF ~RiskLevelOk(q.risk_level)
    THEN Answer(q, HTTPException(422, "risk_level", ""))
    ELSE IF ~MaxWeightOk(q.max_weight)
    THEN Answer(q, HTTPException(422, "max_weight", ""))
    ELSE IF q.file.upload.name = "none"
    THEN Answer(q, HTTPException(500, "internal", "AttributeError"))
    ELSE IF q.file.upload.name # "csv"
    THEN Answer(q, HTTPException(422, "not_csv", ""))
    ELSE [q EXCEPT !.pc = "read"]

\* lines 239-251
ReadCsv(q) ==
    LET rd == FileRead(q.file)
        q1 == [q EXCEPT !.file = rd.file]
    IN  IF rd.data = "undecodable"
        THEN Answer(q1, HTTPException(422, "encoding", "UnicodeDecodeError"))
        ELSE IF rd.data # "valid"
        THEN Answer(q1, HTTPException(422, "read_csv", rd.data))
        ELSE [q1 EXCEPT !.table = q.file.upload.table, !.pc = "format"]

\* lines 254-260
ValidateFormat(q) ==
    LET e == validate_csv_format(q.table)
    IN  IF e # "" THEN Answer(q, HTTPException(422, "format", e))
        ELSE [q EXCEPT !.pc = "clean"]

\* lines 263-273: clean_data, then the call of optimize_portfolio
CleanAndInvoke(q) ==
    LET cl == clean_data(q.table)
    IN  IF ~cl.ok THEN Answer(q, HTTPException(422, "clean_data", cl.err))
        ELSE [q EXCEPT !.pc = "core",
                       !.core = NewCore(cl.df, q.risk_level, q.max_weight),
                       !.invoked = @ + 1]

\* lines 272-281: optimize_portfolio returned or raised
Respond(q) ==
    IF q.core.outcome.kind = "Failed"
    THEN Answer(q, HTTPException(422, "optimization", q.core.outcome.error))
    ELSE Answer(q, [NoResponse EXCEPT
                        !.status = 200,
                        !.optimal_portfolio = q.core.outcome.weights])

\* lines 310-323: the detailed endpoint after the call of line 306 returned
Reprocess(q) ==
    LET rd == FileRead(q.file)
        q1 == [q EXCEPT !.file = rd.file, !.pc = "done"]
        cl == clean_data(q.file.upload.table)
        res == optimize_portfolio(cl.df, q.risk_level, q.max_weight)
    IN  IF rd.data # "valid"
        THEN [q1 EXCEPT !.response = HTTPException(500, "internal", rd.data)]
        ELSE IF ~cl.ok
        THEN [q1 EXCEPT !.response = HTTPException(500, "internal", cl.err)]
        ELSE IF res.outcome.kind = "Failed"
        THEN [q1 EXCEPT !.invoked = @ + 1, !.core = res,
                        !.response =
                            HTTPException(500, "internal", res.outcome.error)]
        ELSE [q1 EXCEPT !.invoked = @ + 1, !.core = res,
                        !.response =
                            [NoResponse EXCEPT
                                !.status = 200,
                                !.optimal_portfolio = res.outcome.weights,
                                !.detailed = TRUE,
                                !.portfolio_metrics = res.outcome.metrics]]

\* ------------------------------------------------------------------- state
vars == <<runs>>

Init == runs = [r \in Runs |-> IdleRun]

Others(r) == Runs \ {r}

Step(r, q) == runs' = [runs EXCEPT ![r] = q]

\* a request arrives at one of the two endpoints
StartRequest(r) ==
    /\ runs[r].pc = "idle"
    /\ \A o \in Others(r) : runs[o].pc = "idle"
    /\ \E k \in {"minimal", "detailed"}, u \in Uploads,
          x \in RiskLevels, w \in MaxWeights :
        Step(r, [IdleRun EXCEPT !.kind = k, !.pc = "params",
                                !.file = [upload |-> u, pos |-> 0],
                                !.risk_level = x, !.max_weight = w])

\* a caller invokes optimize_portfolio itself
StartDirect(r) ==
    /\ runs[r].pc = "idle"
    /\ \A o \in Others(r) : runs[o].pc = "idle"
    /\ \E f \in Frames, x \in RiskLevels, w \in MaxWeights :
        Step(r, [IdleRun EXCEPT !.kind = "direct", !.pc = "core",
                                !.risk_level = x, !.max_weight = w,
                                !.core = NewCore(f, x, w),
                                !.invoked = 1])

\* callers on several worker threads invoke optimize_portfolio
StartConcurrent(r) ==
    /\ runs[r].pc = "idle"
    /\ \E f \in PoolFrames, x \in PoolRisk, w \in PoolWeight :
        Step(r, [IdleRun EXCEPT !.kind = "direct", !.pc = "core",
                                !.risk_level = x, !.max_weight = w,
                                !.core = NewCore(f, x, w),
                                !.invoked = 1])

DoCheckParams(r) ==
    /\ runs[r].pc = "params"
    /\ Step(r, CheckParams(runs[r]))

DoReadCsv(r) ==
    /\ runs[r].pc = "read"
    /\ Step(r, ReadCsv(runs[r]))

DoValidateFormat(r) ==
    /\ runs[r].pc = "format"
    /\ Step(r, ValidateFormat(runs[r]))

DoCleanAndInvoke(r) ==
    /\ runs[r].pc = "clean"
    /\ Step(r, CleanAndInvoke(runs[r]))

InCore(r, pc) == runs[r].pc = "core" /\ runs[r].core.pc = pc

DoEstimate(r) ==
    /\ InCore(r, "Estimate")
    /\ Step(r, [runs[r] EXCEPT !.core = Estimate(@)])

DoValidate(r) ==
    /\ InCore(r, "Validate")
    /\ Step(r, [runs[r] EXCEPT !.core = Validate(@)])

DoMaxSharpe(r) ==
    /\ InCore(r, "MaxSharpe")
    /\ Step(r, [runs[r] EXCEPT !.core = MaxSharpe(@)])

DoRiskCheck(r) ==
    /\ InCore(r, "RiskCheck")
    /\ Step(r, [runs[r] EXCEPT !.core = RiskCheck(@)])

DoReport(r) ==
    /\ InCore(r, "Report")
    /\ Step(r, [runs[r] EXCEPT !.core = Report(@)])

DoRespond(r) ==
    /\ InCore(r, "done")
    /\ runs[r].kind \in {"minimal", "detailed"}
    /\ Step(r, Respond(runs[r]))

DoReturn(r) ==
    /\ InCore(r, "done")
    /\ runs[r].kind = "direct"
    /\ Step(r, [runs[r] EXCEPT !.pc = "done"])

DoReprocess(r) ==
    /\ runs[r].pc = "reprocess"
    /\ Step(r, Reprocess(runs[r]))

\* the response is sent, the request's objects are gone
Deliver(r) ==
    /\ runs[r].pc = "done"
    /\ Step(r, IdleRun)

Next ==
    \E r \in Runs :
        \/ StartRequest(r)
        \/ StartDirect(r)
        \/ DoCheckParams(r)
        \/ DoReadCsv(r)
        \/ DoValidateFormat(r)
        \/ DoCleanAndInvoke(r)
        \/ DoEstimate(r)
        \/ DoValidate(r)
        \/ DoMaxSharpe(r)
        \/ DoRiskCheck(r)
        \/ DoReport(r)
        \/ DoRespond(r)
        \/ DoReturn(r)
        \/ DoReprocess(r)
        \/ Deliver(r)

Spec == Init /\ [][Next]_vars

NextPar ==
    \E r \in Runs :
        \/ StartConcurrent(r)
        \/ DoEstimate(r)
        \/ DoValidate(r)
        \/ DoMaxSharpe(r)
        \/ DoRiskCheck(r)
        \/ DoReport(r)
        \/ DoReturn(r)
        \/ Deliver(r)

SpecPar == Init /\ [][NextPar]_vars


\* ------------------------------------------------------------------ claims
Cores == {runs[r].core : r \in Runs}
Finished == {c \in Cores : c.pc = "done"}
Succeeded == {c \in Finished : c.outcome.kind = "Success"}

\* the weights and the figures the max-Sharpe object / the efficient-risk
\* object of a call reports
SharpeWeights(c) == clean_weights(c.ef).weights
SharpePerf(c) == portfolio_performance(c.ef).perf
RiskWeights(c) == clean_weights(c.ef_risk).weights
RiskPerf(c) == portfolio_performance(c.ef_risk).perf

SharpeSolved(c) ==
    /\ c.ef.solved = "max_sharpe"
    /\ clean_weights(c.ef).ok
    /\ portfolio_performance(c.ef).ok

Attempted(c) == \E i \in DOMAIN c.calls : c.calls[i] = "risk.EfficientFrontier"
\* the result reports these weights and these figures
Reports(c, w, p) ==
    /\ c.outcome.weights = w
    /\ c.outcome.metrics.expected_return = RoundTo(p.ret, METRIC_STEP)
    /\ c.outcome.metrics.expected_volatility = RoundTo(p.vol, METRIC_STEP)
    /\ c.outcome.metrics.sharpe_ratio = RoundTo(p.sharpe, METRIC_STEP)
    /\ c.outcome.metrics.active_positions = CountActive(w)
    /\ c.outcome.metrics.total_weight = RoundTo(SumSeq(w), METRIC_STEP)

Abs(x) == IF x < 0 THEN -x ELSE x

\* C1: when max-Sharpe succeeded, its volatility exceeds risk_level and the
\* efficient-risk solve raises (infeasible target or solver failure), the
\* call ends in Success with the max-Sharpe weights and metrics.
C1_Fallback ==
    \A c \in Finished :
        (/\ SharpeSolved(c)
         /\ SharpePerf(c).vol > c.risk_level
         /\ c.riskError = "efficient_risk")
        => /\ c.outcome.kind = "Success"
           /\ Reports(c, SharpeWeights(c), SharpePerf(c))

C1_Witness ==
    \E c \in Succeeded :
        /\ SharpePerf(c).vol > c.risk_level
        /\ c.riskError = "efficient_risk"
        /\ c.risk_level < Scn(c.ef.scn).er.minVol

\* C2: a call ends in Success or in Failed; Failed comes only from a
\* failure in Estimate, Validate or MaxSharpe, and a failure in the risk
\* check never ends the call in Failed.
C2_TerminalStates ==
    \A c \in Cores :
        /\ c.pc # "done" => c.outcome.kind = "none"
        /\ c.pc = "done" =>
            /\ c.outcome.kind \in {"Success", "Failed"}
            /\ c.outcome.kind = "Failed" =>
                /\ c.failedAt \in {"Estimate", "Validate", "MaxSharpe"}
                /\ ~Attempted(c)
                /\ c.outcome.weights = <<>>
            /\ c.outcome.kind = "Success" =>
                /\ c.failedAt = "none"
                /\ c.outcome.error = ""
            /\ c.riskError # "none" => c.outcome.kind = "Success"

C2_Witness ==
    \E c \in Succeeded :
        /\ c.riskError = "clean_weights"
        /\ c.ef_risk.solved = "efficient_risk"

\* C3: the efficient-risk solve is attempted iff the max-Sharpe volatility
\* is strictly greater than risk_level; not attempted, the result is the
\* max-Sharpe one; attempted and successful, weights and metrics are those
\* of the risk-constrained solve.
C3_RiskCheck ==
    \A c \in Cores :
        /\ (c.pc \in {"Report", "done"} /\ c.failedAt = "none") =>
            (Attempted(c) <=> SharpePerf(c).vol > c.risk_level)
        /\ c.pc \in {"Estimate", "Validate", "MaxSharpe", "RiskCheck"} =>
            ~Attempted(c)
        /\ (c \in Succeeded /\ ~Attempted(c)) =>
            Reports(c, SharpeWeights(c), SharpePerf(c))
        /\ (c \in Succeeded /\ Attempted(c) /\ c.riskError = "none") =>
            /\ c.ef_risk.solved = "efficient_risk"
            /\ Reports(c, RiskWeights(c), RiskPerf(c))

C3_Witness ==
    \E c \in Succeeded :
        /\ Attempted(c)
        /\ c.riskError = "none"
        /\ RiskWeights(c) # SharpeWeights(c)
        /\ RiskPerf(c) # SharpePerf(c)

C5_DetailedSucceeds ==
    \A r \in Runs :
        (/\ runs[r].kind = "detailed"
         /\ runs[r].pc = "done"
         /\ runs[r].inner.status = 200)
        => /\ runs[r].response.status = 200
           /\ runs[r].response.detailed
           /\ runs[r].response.optimal_portfolio
                = runs[r].inner.optimal_portfolio

SumTol(w) == Len(w) * CUTOFF

Endpoint(r) == runs[r].kind \in {"minimal", "detailed"}

C8_CheckedBeforeInvoked ==
    \A r \in Runs :
        Endpoint(r) =>
            /\ runs[r].invoked > 0 =>
                /\ RISK_MIN <= runs[r].risk_level
                /\ runs[r].risk_level <= RISK_MAX
                /\ WEIGHT_MIN <= runs[r].max_weight
                /\ runs[r].max_weight <= WEIGHT_MAX
                /\ runs[r].core.df.rows >= MIN_ROWS
                /\ runs[r].core.df.cols >= MIN_COLS
                /\ runs[r].core.df.rows
                    = runs[r].table.rows - runs[r].table.dupRows
                        - runs[r].table.nanRows
                /\ runs[r].core.df.cols
                    = runs[r].table.cols - runs[r].table.badCols
            /\ (/\ runs[r].pc \notin {"idle", "params"}
                /\ \/ runs[r].risk_level < RISK_MIN
                   \/ runs[r].risk_level > RISK_MAX
                   \/ runs[r].max_weight < WEIGHT_MIN
                   \/ runs[r].max_weight > WEIGHT_MAX
                   \/ runs[r].response.error
                        \in {"risk_level", "max_weight", "clean_data"})
               => /\ runs[r].pc = "done"
                  /\ runs[r].response.status = 422
                  /\ runs[r].invoked = 0

C8_Witness ==
    /\ \E r \in Runs :
        /\ runs[r].kind = "detailed"
        /\ runs[r].pc = "reprocess"
        /\ runs[r].invoked = 1
        /\ runs[r].max_weight = WEIGHT_MAX
        /\ runs[r].table.badCols = 1

\* C9 as stated: optimize_portfolio, given fewer than 30 observations or
\* fewer than 2 assets, ends in Failed with the insufficient-data error.
ShortFrame(df) == df.rows < MIN_ROWS \/ df.cols < MIN_COLS

C9_CoreRechecks ==
    \A c \in Finished :
        ShortFrame(c.df) =>
            /\ c.outcome.kind = "Failed"
            /\ c.outcome.error = "InsufficientDataError"

\* C9 amended: the test for fewer than 30 observations or fewer than 2
\* assets is made by clean_data, before the call: when the cleaned matrix
\* is that small the endpoint answers 422 with the insufficient-data error
\* and does not invoke optimize_portfolio. optimize_portfolio makes no such
\* test: it never reports insufficient data, and on such a matrix it fails
\* only when the statistics are undefined (fewer than 2 rows), the
\* covariance is singular, or the library raises.
C9_CheckedByCleanData ==
    /\ \A r \in Runs :
        Endpoint(r) =>
            /\ runs[r].invoked > 0 => ~ShortFrame(runs[r].core.df)
            /\ runs[r].response.error = "clean_data" =>
                /\ runs[r].response.cause = "InsufficientDataError"
                /\ runs[r].response.status = 422
                /\ runs[r].invoked = 0
                /\ \/ runs[r].table.rows - runs[r].table.dupRows
                        - runs[r].table.nanRows < MIN_ROWS
                   \/ runs[r].table.cols - runs[r].table.badCols < MIN_COLS
    /\ \A c \in Finished :
        /\ c.outcome.error # "InsufficientDataError"
        /\ (ShortFrame(c.df) /\ c.outcome.kind = "Failed") =>
            \/ c.df.rows < 2 /\ c.outcome.error = "StatisticsError"
            \/ /\ Cov(c.df).minEig <= 0
               /\ c.outcome.error = "IllConditionedCovarianceError"
            \/ c.outcome.error = "OptimizationError"

C9_Witness ==
    /\ \E r \in Runs :
        /\ runs[r].kind = "direct"
        /\ runs[r].core \in Succeeded
        /\ runs[r].core.df.rows < MIN_ROWS
        /\ runs[r].core.df.cols < MIN_COLS

\* C10: in every Success result the weights and the metrics come from the
\* same solve, both from max-Sharpe or both from efficient-risk, also when
\* the risk-constrained attempt fails part-way.
C10_SameSolve ==
    \A c \in Succeeded :
        \/ Reports(c, SharpeWeights(c), SharpePerf(c))
        \/ /\ c.ef_risk.solved = "efficient_risk"
           /\ Reports(c, RiskWeights(c), RiskPerf(c))

=============================================================================
